---- MODULE Spec2Model ----
(***************************************************************************)
(* Model of src/main.rs of large-primes: the candidate sampler, the sieve, *)
(* the two certifiers, the sequential search loop and the parallel search  *)
(* coordinator.                                                            *)
(*                                                                         *)
(* A BigUint is modelled as num-bigint stores it: a little-endian sequence *)
(* of limbs without leading zero limbs (zero is the empty sequence).  The  *)
(* limbs here are decimal digits, so a 50-digit candidate is a sequence of *)
(* 50 limbs.  Its Display text (what format! writes into the gp script) is *)
(* the big-endian digit string.                                            *)
(***************************************************************************)
EXTENDS Integers, Sequences, FiniteSets, TLC

(* ---------------------------------------------------------------------- *)
(* Program constants                                                      *)
(* ---------------------------------------------------------------------- *)

\* the table with one prime left out (617) and one more at the end
SMALL_PRIMES_without_617 ==
  <<
     2, 3, 5, 7, 11, 13, 17, 19, 23, 29, 31, 37, 41, 43, 47, 53, 59, 61, 67, 71,
     73, 79, 83, 89, 97, 101, 103, 107, 109, 113, 127, 131, 137, 139, 149, 151, 157, 163, 167, 173,
     179, 181, 191, 193, 197, 199, 211, 223, 227, 229, 233, 239, 241, 251, 257, 263, 269, 271, 277, 281,
     283, 293, 307, 311, 313, 317, 331, 337, 347, 349, 353, 359, 367, 373, 379, 383, 389, 397, 401, 409,
     419, 421, 431, 433, 439, 443, 449, 457, 461, 463, 467, 479, 487, 491, 499, 503, 509, 521, 523, 541,
     547, 557, 563, 569, 571, 577, 587, 593, 599, 601, 607, 613, 619, 631, 641, 643, 647, 653, 659, 661,
     673, 677, 683, 691, 701, 709, 719, 727, 733, 739, 743, 751, 757, 761, 769, 773, 787, 797, 809, 811,
     821, 823, 827, 829, 839, 853, 857, 859, 863, 877, 881, 883, 887, 907, 911, 919, 929, 937, 941, 947,
     953, 967, 971, 977, 983, 991, 997, 1009, 1013, 1019, 1021, 1031, 1033, 1039, 1049, 1051, 1061, 1063, 1069, 1087,
     1091, 1093, 1097, 1103, 1109, 1117, 1123, 1129, 1151, 1153, 1163, 1171, 1181, 1187, 1193, 1201, 1213, 1217, 1223, 1229,
     1231
  >>

SMALL_PRIMES ==
  << 
     2, 3, 5, 7, 11, 13, 17, 19, 23, 29, 31, 37, 41, 43, 47, 53, 59, 61, 67, 71,
     73, 79, 83, 89, 97, 101, 103, 107, 109, 113, 127, 131, 137, 139, 149, 151, 157, 163, 167, 173,
     179, 181, 191, 193, 197, 199, 211, 223, 227, 229, 233, 239, 241, 251, 257, 263, 269, 271, 277, 281,
     283, 293, 307, 311, 313, 317, 331, 337, 347, 349, 353, 359, 367, 373, 379, 383, 389, 397, 401, 409,
     419, 421, 431, 433, 439, 443, 449, 457, 461, 463, 467, 479, 487, 491, 499, 503, 509, 521, 523, 541,
     547, 557, 563, 569, 571, 577, 587, 593, 599, 601, 607, 613, 617, 619, 631, 641, 643, 647, 653, 659,
     661, 673, 677, 683, 691, 701, 709, 719, 727, 733, 739, 743, 751, 757, 761, 769, 773, 787, 797, 809,
     811, 821, 823, 827, 829, 839, 853, 857, 859, 863, 877, 881, 883, 887, 907, 911, 919, 929, 937, 941,
     947, 953, 967, 971, 977, 983, 991, 997, 1009, 1013, 1019, 1021, 1031, 1033, 1039, 1049, 1051, 1061, 1063, 1069,
     1087, 1091, 1093, 1097, 1103, 1109, 1117, 1123, 1129, 1151, 1153, 1163, 1171, 1181, 1187, 1193, 1201, 1213, 1217, 1223,
     1229
  >>

parallel_threshhold == 50

(* ---------------------------------------------------------------------- *)
(* Bounds of the model                                                    *)
(* ---------------------------------------------------------------------- *)

\* num_cpus::get(): the number of logical CPUs the process sees.
cpus == 1

\* Size of rayon's global thread pool (RAYON_NUM_THREADS).
NumThreads == 2

\* For digit counts 1..MaxFullDigits every value of the range is a possible draw.
MaxFullDigits == 2

(* ---------------------------------------------------------------------- *)
(* BigUint arithmetic (num-bigint), on little-endian decimal limbs        *)
(* ---------------------------------------------------------------------- *)

RECURSIVE BigFromNat(_)
\* BigUint::from(n) / from_u32(n)
BigFromNat(n) ==
  IF n = 0 THEN << >> ELSE << n % 10 >> \o BigFromNat(n \div 10)

RECURSIVE BigToNat(_)
\* value of a BigUint that fits a machine integer
BigToNat(b) ==
  IF b = << >> THEN 0 ELSE Head(b) + 10 * BigToNat(Tail(b))

RECURSIVE Normalize(_)
\* drop leading (most significant) zero limbs
Normalize(b) ==
  IF b = << >> THEN b
  ELSE IF b[Len(b)] = 0 THEN Normalize(SubSeq(b, 1, Len(b) - 1))
  ELSE b

\* BigUint::from(10u32).pow(e): in decimal limbs, e zero limbs below a 1
BigPow10(e) == [i \in 1..(e + 1) |-> IF i = e + 1 THEN 1 ELSE 0]

RECURSIVE AddCarry(_, _)
AddCarry(b, carry) ==
  IF carry = 0 THEN b
  ELSE IF b = << >> THEN << carry >>
  ELSE LET t == Head(b) + carry
       IN << t % 10 >> \o AddCarry(Tail(b), t \div 10)

\* num + BigUint::one()
BigAddOne(b) == AddCarry(b, 1)

RECURSIVE RemFrom(_, _, _, _)
\* remainder of the limbs b[1..i] (most significant first) by the u32 p
RemFrom(b, p, i, acc) ==
  IF i = 0 THEN acc ELSE RemFrom(b, p, i - 1, (acc * 10 + b[i]) % p)

\* &candidate % p  for a small p
BigRem(b, p) == RemFrom(b, p, Len(b), 0)

RECURSIVE LessFrom(_, _, _)
LessFrom(a, b, i) ==
  IF i = 0 THEN FALSE
  ELSE IF a[i] # b[i] THEN a[i] < b[i]
  ELSE LessFrom(a, b, i - 1)

\* a < b on BigUint
BigLess(a, b) ==
  IF Len(a) # Len(b) THEN Len(a) < Len(b) ELSE LessFrom(a, b, Len(a))

BigLeq(a, b) == a = b \/ BigLess(a, b)

RECURSIVE Reverse(_)
Reverse(s) == IF s = << >> THEN s ELSE Reverse(Tail(s)) \o << Head(s) >>

\* format!("{}", candidate): the big-endian decimal text of a BigUint
ToDecimal(b) == IF b = << >> THEN << 0 >> ELSE Reverse(b)

RECURSIVE StripZeros(_)
StripZeros(t) ==
  IF t = << >> THEN t
  ELSE IF Head(t) = 0 THEN StripZeros(Tail(t))
  ELSE t

\* the number gp reads from a decimal literal
FromDecimal(t) == Reverse(StripZeros(t))

(* ---------------------------------------------------------------------- *)
(* Inputs: the random draws and the primality of the sampled values       *)
(* ---------------------------------------------------------------------- *)

\* 10^(d-1) + k as a BigUint, for 0 <= k < 10^(d-1)
LowOffset(d, k) ==
  LET low == BigFromNat(k)
  IN low \o [i \in 1..(d - 1 - Len(low)) |-> 0] \o << 1 >>

\* 10^d - k as a BigUint, for 1 <= k <= 100 and d >= 2
HighOffset(d, k) ==
  LET t == 100 - k
  IN Normalize(<< t % 10, t \div 10 >> \o [i \in 1..(d - 2) |-> 9])

\* The values the random source is let to produce.  For a small digit count
\* d: every natural below 10^(d+1).  For 7 digits: the two ends of the range,
\* a prime and 1231^2 (the smallest odd composite without a factor in the
\* table).  For 50 digits: the low end, two primes (10^49+9 after the
\* increment, 10^49+69) and a composite without small factor (10^49+19).
DrawPool(d) ==
  IF d <= MaxFullDigits
  THEN { BigFromNat(n) : n \in 0..(BigToNat(BigPow10(d + 1)) - 1) }
  ELSE IF d = 7 THEN { LowOffset(7, 0), LowOffset(7, 2),
                       BigFromNat(1231 * 1231), HighOffset(7, 2) }
  ELSE { LowOffset(d, 0), LowOffset(d, 8), LowOffset(d, 19), LowOffset(d, 69) }

\* The pool the sampler is exercised on in isolation: that of the search and
\* the ends of the range and of its neighbours (10^d - 2 is the largest even
\* value of the range).
SamplerPool(d) ==
  DrawPool(d) \cup
  (IF d >= 2
   THEN { LowOffset(d, 0), LowOffset(d, 1), HighOffset(d, 2), HighOffset(d, 1),
          HighOffset(d, 58), HighOffset(d, 57), HighOffset(d - 1, 1),
          LowOffset(d + 1, 0) }
   ELSE {})

\* the primes among the sampled values too large for trial division
LargePrimes ==
  { LowOffset(50, 9), LowOffset(50, 69), HighOffset(50, 57) }

\* primality of a machine-size natural, by trial division
IsPrimeNat(n) ==
  /\ n >= 2
  /\ \A k \in 2..n : k * k > n \/ n % k # 0 \/ k = n

\* primality of a sampled value (mathematical truth)
IsPrime(b) ==
  IF Len(b) <= 4 THEN IsPrimeNat(BigToNat(b))
  ELSE IF Len(b) <= 9
  THEN LET n == BigToNat(b)
       IN n >= 2 /\ \A k \in 2..3200 : k * k > n \/ n % k # 0
  ELSE b \in LargePrimes

(* ---------------------------------------------------------------------- *)
(* The functions of src/main.rs                                           *)
(* ---------------------------------------------------------------------- *)

\* num_prime::nt_funcs::is_prime(candidate, Some(strict)): exact below 2^64,
\* Probable for a larger prime, No for a composite.
is_prime(candidate) ==
  IF Len(candidate) < 20
  THEN (IF IsPrime(candidate) THEN "Yes" ELSE "No")
  ELSE (IF IsPrime(candidate) THEN "Probable" ELSE "No")

probable_prime_check(candidate) ==
  CASE is_prime(candidate) = "Yes" -> TRUE
    [] is_prime(candidate) = "No" -> FALSE
    [] is_prime(candidate) = "Probable" -> TRUE

\* let lower = BigUint::from(10u32).pow(digits as u32 - 1), for digits >= 1
lower(digits) == BigPow10(digits - 1)

\* upper with the exponent one too large
upper_one_digit_more(digits) == BigPow10(digits + 1)

\* let upper = BigUint::from(10u32).pow(digits as u32)
upper(digits) == BigPow10(digits)

\* rng.gen_biguint_range(&lower, &upper): the values of the pool in [lo, hi)
gen_biguint_range(lo, hi, pool) ==
  { x \in pool : BigLeq(lo, x) /\ BigLess(x, hi) }

\* generate_prime_candidate without the step to the next odd value
generate_prime_candidate_as_drawn(digits, num) ==
  [returned |-> TRUE, value |-> num]

\* One iteration of the loop of generate_prime_candidate on the draw num:
\* generate_prime_candidate asking for room above the incremented value
generate_prime_candidate_with_margin(digits, num) ==
  IF BigRem(num, 2) = 0
  THEN LET odd_num == BigAddOne(num)
       IN IF BigLess(BigAddOne(odd_num), upper(digits))
          THEN [returned |-> TRUE, value |-> odd_num]
          ELSE [returned |-> FALSE, value |-> << >>]
  ELSE [returned |-> TRUE, value |-> num]

\* the value returned, or a `continue` (another draw).
generate_prime_candidate(digits, num) ==
  IF BigRem(num, 2) = 0
  THEN LET odd_num == BigAddOne(num)
       IN IF BigLess(odd_num, upper(digits))
          THEN [returned |-> TRUE, value |-> odd_num]
          ELSE [returned |-> FALSE, value |-> << >>]
  ELSE [returned |-> TRUE, value |-> num]

\* sieve_hit without the comparison candidate != &bp
sieve_hit_any_multiple(candidate, i) ==
  BigRem(candidate, SMALL_PRIMES[i]) = 0

\* sieve_hit comparing the candidate with the index instead of the prime
sieve_hit_index_compared(candidate, i) ==
  BigRem(candidate, SMALL_PRIMES[i]) = 0 /\ candidate # BigFromNat(i)

\* The test of one iteration of the for loop of sieve_check, on table entry i
sieve_hit(candidate, i) ==
  LET p == SMALL_PRIMES[i]
      bp == BigFromNat(p)
  IN BigRem(candidate, p) = 0 /\ candidate # bp

\* for &p in SMALL_PRIMES.iter().skip(1): false at the first hit, true when
\* the loop ends (the loop starts at the second entry of the table)
sieve_check(candidate) ==
  \A i \in 2..Len(SMALL_PRIMES) : ~sieve_hit(candidate, i)

\* format!("default(parisizemax, 12000000000) \nprint(isprime({}));\nquit;", candidate):
\* the script is identified by the decimal literal it passes to isprime.
script_content(candidate) == ToDecimal(candidate)

\* the script file does not exist
NoFile == [exists |-> FALSE, script |-> << >>, writer |-> 0]

\* What `gp -q temp_prime_check.gp` prints on stdout when it runs to the end:
\* nothing when the script cannot be read, else the verdict of isprime.
gp_stdout(f) ==
  IF ~f.exists THEN ""
  ELSE IF IsPrime(FromDecimal(f.script)) THEN "1" ELSE "0"

\* The outcomes of Command::new("gp").arg("-q").arg(script_path).output():
\* an Err (gp cannot be launched), an output without verdict (gp crashed or
\* wrote something else), or the output of a complete run.
gp_outcomes(f) == { "Err", "", gp_stdout(f) }

\* the comparison with the wrong literal
verdict_of_zero(stdout) == stdout = "0"

\* String::from_utf8_lossy(&output.stdout).trim() == "1"
verdict_of(stdout) == stdout = "1"

(* ---------------------------------------------------------------------- *)
(* State                                                                  *)
(* ---------------------------------------------------------------------- *)

VARIABLES
  mpc,                \* where the calling thread is
  path,               \* "none", "sequential" or "parallel": the branch gen_rand_large_prime took
  digits,             \* the argument of the call in progress
  candidate,          \* the candidate of the sequential loop
  candidates,         \* parallel round: the sampled candidates
  sieved_candidates,  \* parallel round: the candidates the sieve passed
  found,              \* the AtomicBool shared by the workers
  tpc,                \* parallel round: where the closure call on each item is
  out,                \* stdout of the gp run of each oracle call (index 0: sequential)
  judged,             \* the decimal literal gp was given in that run
  file,               \* temp_prime_check.gp: NoFile or its script and who wrote it
  result,             \* the value returned to the caller
  result_judged,      \* the literal the oracle judged when it accepted result
  first_certified,    \* parallel round: the candidate whose certification completed first
  fault,              \* the panic that ended the call, if any
  call                \* a function exercised in isolation: its arguments and result

vars ==
  << mpc, path, digits, candidate, candidates, sieved_candidates, found, tpc,
     out, judged, file, result, result_judged, first_certified, fault, call >>

\* let num_candidates = cpus * 4
num_candidates == cpus * 4

Items == 1..num_candidates

\* index 0 is the oracle call of the sequential loop
Callers == 0..num_candidates

None == << >>

NoCall == [fn |-> "none"]

\* the digit counts requested of gen_rand_large_prime
Digits == (0..MaxFullDigits) \cup { 7, parallel_threshhold }

\* a closure call that has begun and has not returned
InProgress == { "ppc", "write", "run", "remove", "store" }

Running == { i \in Items : tpc[i] \in InProgress }

Fresh ==
  /\ candidate = None
  /\ candidates = << >>
  /\ sieved_candidates = << >>
  /\ tpc = [i \in Items |-> "unused"]
  /\ out = [c \in Callers |-> "none"]
  /\ judged = [c \in Callers |-> None]
  /\ result = None
  /\ result_judged = None
  /\ first_certified = None
  /\ fault = "none"

Init ==
  /\ mpc = "idle"
  /\ path = "none"
  /\ digits = 0
  /\ found = FALSE
  /\ file = NoFile
  /\ call = NoCall
  /\ Fresh

(* ---------------------------------------------------------------------- *)
(* gen_rand_large_prime                                                   *)
(* ---------------------------------------------------------------------- *)

\* main calls gen_rand_large_prime(d); the call takes the parallel branch
\* from parallel_threshhold digits on.  The AtomicBool is created by the
\* parallel branch.
gen_rand_large_prime(d) ==
  /\ mpc \in { "idle", "returned" }
  /\ digits' = d
  /\ IF d >= parallel_threshhold
     THEN /\ path' = "parallel"
          /\ mpc' = "par_sample"
          /\ found' = FALSE
     ELSE /\ path' = "sequential"
          /\ mpc' = "Sampling"
          /\ found' = found
  /\ candidate' = None
  /\ candidates' = << >>
  /\ sieved_candidates' = << >>
  /\ tpc' = [i \in Items |-> "unused"]
  /\ out' = [c \in Callers |-> "none"]
  /\ judged' = [c \in Callers |-> None]
  /\ result' = None
  /\ result_judged' = None
  /\ first_certified' = None
  /\ fault' = "none"
  /\ UNCHANGED << file, call >>

(* ---------------------------------------------------------------------- *)
(* generate_prime_candidate in the search                                 *)
(* ---------------------------------------------------------------------- *)

\* digits as u32 - 1 with digits = 0: the subtraction overflows.  A build with
\* overflow checks panics there; a build without wraps the exponent to
\* u32::MAX, and the draw from the empty range [10^u32::MAX, 1) panics.
sample_underflow ==
  /\ mpc = "Sampling"
  /\ digits = 0
  /\ \E build \in { "checked", "unchecked" } :
       fault' = IF build = "checked" THEN "attempt to subtract with overflow"
                ELSE "exponent wrapped to u32::MAX"
  /\ mpc' = "panicked"
  /\ UNCHANGED << path, digits, candidate, candidates, sieved_candidates, found,
                  tpc, out, judged, file, result, result_judged, first_certified, call >>

\* the draws of generate_prime_candidate(digits)
Draws(d) == gen_biguint_range(lower(d), upper(d), DrawPool(d))

(* ---------------------------------------------------------------------- *)
(* gen_rand_large_prime_sequential                                        *)
(* ---------------------------------------------------------------------- *)

\* let candidate = generate_prime_candidate(digits): one draw; a `continue`
\* of the sampler leaves the loop where it is.
seq_sample ==
  /\ mpc = "Sampling"
  /\ digits >= 1
  /\ \E num \in Draws(digits) :
       LET r == generate_prime_candidate(digits, num)
       IN IF r.returned
          THEN candidate' = r.value /\ mpc' = "Sieving"
          ELSE UNCHANGED << candidate, mpc >>
  /\ UNCHANGED << path, digits, candidates, sieved_candidates, found, tpc, out,
                  judged, file, result, result_judged, first_certified, fault, call >>

\* if !sieve_check(&candidate) { continue; }
seq_sieve ==
  /\ mpc = "Sieving"
  /\ IF sieve_check(candidate)
     THEN mpc' = "Certifying" /\ candidate' = candidate
     ELSE mpc' = "Sampling" /\ candidate' = None
  /\ UNCHANGED << path, digits, candidates, sieved_candidates, found, tpc, out,
                  judged, file, result, result_judged, first_certified, fault, call >>

\* if probable_prime_check(&candidate) { ... }
seq_probable ==
  /\ mpc = "Certifying"
  /\ IF probable_prime_check(candidate)
     THEN mpc' = "dpc_write" /\ candidate' = candidate
     ELSE mpc' = "Sampling" /\ candidate' = None
  /\ UNCHANGED << path, digits, candidates, sieved_candidates, found, tpc, out,
                  judged, file, result, result_judged, first_certified, fault, call >>

(* ---------------------------------------------------------------------- *)
(* deterministic_prime_check, step by step, for the caller c on candidate n *)
(* ---------------------------------------------------------------------- *)

\* let _ = fs::write(script_path, script_content)
dpc_write(c, n) ==
  file' = [exists |-> TRUE, script |-> script_content(n), writer |-> c]

\* Command::new("gp")...output() returned Ok(output): gp ran on the script
\* file as it was then.
dpc_run(c, o) ==
  /\ out' = [out EXCEPT ![c] = o]
  /\ judged' = [judged EXCEPT ![c] = IF file.exists THEN file.script ELSE None]

\* let _ = fs::remove_file(script_path)
dpc_remove == file' = NoFile

seq_write ==
  /\ mpc = "dpc_write"
  /\ dpc_write(0, candidate)
  /\ mpc' = "dpc_run"
  /\ UNCHANGED << path, digits, candidate, candidates, sieved_candidates, found,
                  tpc, out, judged, result, result_judged, first_certified, fault, call >>

seq_run ==
  /\ mpc = "dpc_run"
  /\ \E o \in gp_outcomes(file) :
       IF o = "Err"
       THEN /\ mpc' = "panicked"
            /\ fault' = "Failed to run PARI/GP"
            /\ UNCHANGED << out, judged >>
       ELSE /\ dpc_run(0, o)
            /\ mpc' = "dpc_remove"
            /\ fault' = fault
  /\ UNCHANGED << path, digits, candidate, candidates, sieved_candidates, found,
                  tpc, file, result, result_judged, first_certified, call >>

\* remove_file, the comparison with "1", and the loop's reaction to the verdict
seq_remove ==
  /\ mpc = "dpc_remove"
  /\ dpc_remove
  /\ IF verdict_of(out[0])
     THEN /\ mpc' = "returned"
          /\ result' = candidate
          /\ result_judged' = judged[0]
     ELSE /\ mpc' = "Sampling"
          /\ UNCHANGED << result, result_judged >>
  /\ candidate' = None
  /\ out' = [out EXCEPT ![0] = "none"]
  /\ judged' = [judged EXCEPT ![0] = None]
  /\ UNCHANGED << path, digits, candidates, sieved_candidates, found, tpc,
                  first_certified, fault, call >>

(* ---------------------------------------------------------------------- *)
(* gen_rand_large_prime_parallel                                          *)
(* ---------------------------------------------------------------------- *)

\* (0..num_candidates).into_par_iter().map(|_| generate_prime_candidate(digits)).collect():
\* every closure returns the value of its last draw; the closures share nothing.
par_sample ==
  /\ mpc = "par_sample"
  /\ \E nums \in [Items -> Draws(digits)] :
       /\ \A i \in Items : generate_prime_candidate(digits, nums[i]).returned
       /\ candidates' = [i \in Items |-> generate_prime_candidate(digits, nums[i]).value]
  /\ mpc' = "par_sieve"
  /\ UNCHANGED << path, digits, candidate, sieved_candidates, found, tpc, out,
                  judged, file, result, result_judged, first_certified, fault, call >>

\* par_sieve without the filter: every sampled candidate goes on
par_sieve_unfiltered ==
  /\ mpc = "par_sieve"
  /\ sieved_candidates' = candidates
  /\ candidates' = << >>
  /\ tpc' = [i \in Items |-> IF i <= Len(sieved_candidates') THEN "todo" ELSE "unused"]
  /\ mpc' = "par_find"
  /\ UNCHANGED << path, digits, candidate, found, out, judged, file, result,
                  result_judged, first_certified, fault, call >>

\* candidates.into_par_iter().filter(|c| sieve_check(c)).collect(): the order
\* is kept and candidates is consumed.  The closure of find_map_first is then
\* due once for every sieved candidate.
par_sieve ==
  /\ mpc = "par_sieve"
  /\ sieved_candidates' = SelectSeq(candidates, sieve_check)
  /\ candidates' = << >>
  /\ tpc' = [i \in Items |-> IF i <= Len(sieved_candidates') THEN "todo" ELSE "unused"]
  /\ mpc' = "par_find"
  /\ UNCHANGED << path, digits, candidate, found, out, judged, file, result,
                  result_judged, first_certified, fault, call >>

\* A pool thread takes the item i and enters the closure:
\* if found_arc.load(Ordering::Relaxed) { return None; }
task_load(i) ==
  /\ mpc = "par_find"
  /\ tpc[i] = "todo"
  /\ Cardinality(Running) < NumThreads
  /\ tpc' = [tpc EXCEPT ![i] = IF found THEN "None" ELSE "ppc"]
  /\ UNCHANGED << mpc, path, digits, candidate, candidates, sieved_candidates,
                  found, out, judged, file, result, result_judged, first_certified, fault, call >>

\* if probable_prime_check(c) { ... } else { None }
task_probable(i) ==
  /\ tpc[i] = "ppc"
  /\ tpc' = [tpc EXCEPT ![i] =
               IF probable_prime_check(sieved_candidates[i]) THEN "write" ELSE "None"]
  /\ UNCHANGED << mpc, path, digits, candidate, candidates, sieved_candidates,
                  found, out, judged, file, result, result_judged, first_certified, fault, call >>

task_write(i) ==
  /\ tpc[i] = "write"
  /\ dpc_write(i, sieved_candidates[i])
  /\ tpc' = [tpc EXCEPT ![i] = "run"]
  /\ UNCHANGED << mpc, path, digits, candidate, candidates, sieved_candidates,
                  found, out, judged, result, result_judged, first_certified, fault, call >>

\* the gp run; .expect("Failed to run PARI/GP") panics in the pool thread
task_run(i) ==
  /\ tpc[i] = "run"
  /\ \E o \in gp_outcomes(file) :
       IF o = "Err"
       THEN /\ tpc' = [tpc EXCEPT ![i] = "panicked"]
            /\ UNCHANGED << out, judged >>
       ELSE /\ dpc_run(i, o)
            /\ tpc' = [tpc EXCEPT ![i] = "remove"]
  /\ UNCHANGED << mpc, path, digits, candidate, candidates, sieved_candidates,
                  found, file, result, result_judged, first_certified, fault, call >>

\* remove_file and the comparison with "1": the closure goes on to the store
\* or returns None
task_remove(i) ==
  /\ tpc[i] = "remove"
  /\ dpc_remove
  /\ tpc' = [tpc EXCEPT ![i] = IF verdict_of(out[i]) THEN "store" ELSE "None"]
  /\ first_certified' = IF verdict_of(out[i]) /\ first_certified = None
                        THEN sieved_candidates[i]
                        ELSE first_certified
  /\ UNCHANGED << mpc, path, digits, candidate, candidates, sieved_candidates,
                  found, out, judged, result, result_judged, fault, call >>

\* found_arc.store(true, Ordering::Relaxed); Some(c.clone())
task_store(i) ==
  /\ tpc[i] = "store"
  /\ found' = TRUE
  /\ tpc' = [tpc EXCEPT ![i] = "Some"]
  /\ UNCHANGED << mpc, path, digits, candidate, candidates, sieved_candidates,
                  out, judged, file, result, result_judged, first_certified, fault, call >>

\* the items whose closure returned Some
Certified == { i \in Items : tpc[i] = "Some" }

\* find_map_first: the match of the lowest position
first_match(matches) == CHOOSE i \in matches : \A j \in matches : i <= j

\* round_over without the barrier: the coordinator goes on at the first match
round_over_at_first_match ==
  /\ mpc = "par_find"
  /\ \/ \E i \in Items : tpc[i] = "Some"
     \/ \A i \in Items : tpc[i] \notin InProgress \cup { "todo" }

\* find_map_first has returned or unwinds: no closure is running, and every
\* item was handled unless a closure panicked.
round_over ==
  /\ mpc = "par_find"
  /\ Running = {}
  /\ \/ \A i \in Items : tpc[i] # "todo"
     \/ \E i \in Items : tpc[i] = "panicked"

Cleared ==
  /\ sieved_candidates' = << >>
  /\ tpc' = [i \in Items |-> "unused"]
  /\ out' = [c \in Callers |-> "none"]
  /\ judged' = [c \in Callers |-> None]

\* the panic of a closure is resumed in the caller of find_map_first
par_panic ==
  /\ round_over
  /\ \E i \in Items : tpc[i] = "panicked"
  /\ mpc' = "panicked"
  /\ fault' = "Failed to run PARI/GP"
  /\ UNCHANGED << path, digits, candidate, candidates, sieved_candidates, found,
                  tpc, out, judged, file, result, result_judged, first_certified, call >>

\* if let Some(prime) = prime_result { found.store(false, ..); return prime.clone(); }
par_return ==
  /\ round_over
  /\ \A i \in Items : tpc[i] # "panicked"
  /\ Certified # {}
  /\ found' = FALSE
  /\ result' = sieved_candidates[first_match(Certified)]
  /\ result_judged' = judged[first_match(Certified)]
  /\ mpc' = "returned"
  /\ Cleared
  /\ UNCHANGED << path, digits, candidate, candidates, file, first_certified,
                  fault, call >>

\* found.store(false, Ordering::Relaxed); and the loop goes round
par_retry ==
  /\ round_over
  /\ \A i \in Items : tpc[i] # "panicked"
  /\ Certified = {}
  /\ found' = FALSE
  /\ mpc' = "par_sample"
  /\ first_certified' = None
  /\ Cleared
  /\ UNCHANGED << path, digits, candidate, candidates, file, result,
                  result_judged, fault, call >>

(* ---------------------------------------------------------------------- *)
(* The program                                                            *)
(* ---------------------------------------------------------------------- *)

Next ==
  \/ \E d \in Digits : gen_rand_large_prime(d)
  \/ sample_underflow
  \/ seq_sample
  \/ seq_sieve
  \/ seq_probable
  \/ seq_write
  \/ seq_run
  \/ seq_remove
  \/ par_sample
  \/ par_sieve
  \/ \E i \in Items : task_load(i)
  \/ \E i \in Items : task_probable(i)
  \/ \E i \in Items : task_write(i)
  \/ \E i \in Items : task_run(i)
  \/ \E i \in Items : task_remove(i)
  \/ \E i \in Items : task_store(i)
  \/ par_panic
  \/ par_return
  \/ par_retry

Spec == Init /\ [][Next]_vars

(* ---------------------------------------------------------------------- *)
(* generate_prime_candidate and sieve_check exercised in isolation        *)
(* ---------------------------------------------------------------------- *)

\* largest argument sieve_check is exercised on (2 * 1229 lies below it)
MaxSieveInput == 2500

Quiet ==
  /\ mpc = "idle"
  /\ path = "none"
  /\ digits = 0
  /\ found = FALSE
  /\ file = NoFile
  /\ Fresh

SamplerDigits == (1..MaxFullDigits) \cup { 7, parallel_threshhold }

\* a call generate_prime_candidate(d) about to use its first draw
InitSampler ==
  /\ Quiet
  /\ \E d \in SamplerDigits :
       \E num \in gen_biguint_range(lower(d), upper(d), SamplerPool(d)) :
         call = [fn |-> "generate_prime_candidate", digits |-> d, num |-> num,
                 draws |-> 1, done |-> FALSE, ret |-> None]

\* one iteration of the loop: return, or draw again
sampler_iteration ==
  /\ call.fn = "generate_prime_candidate"
  /\ ~call.done
  /\ LET r == generate_prime_candidate(call.digits, call.num)
     IN IF r.returned
        THEN call' = [call EXCEPT !.done = TRUE, !.ret = r.value]
        ELSE \E num \in gen_biguint_range(lower(call.digits), upper(call.digits),
                                          SamplerPool(call.digits)) :
               call' = [call EXCEPT !.num = num, !.draws = 2]
  /\ UNCHANGED << mpc, path, digits, candidate, candidates, sieved_candidates,
                  found, tpc, out, judged, file, result, result_judged, first_certified, fault >>

NextSampler == sampler_iteration

SpecSampler == InitSampler /\ [][NextSampler]_vars

\* a call sieve_check(&candidate) on the value n
InitSieve ==
  /\ Quiet
  /\ \E n \in 0..MaxSieveInput :
       call = [fn |-> "sieve_check", n |-> n, candidate |-> BigFromNat(n),
               done |-> FALSE, ret |-> FALSE]

sieve_call ==
  /\ call.fn = "sieve_check"
  /\ ~call.done
  /\ call' = [call EXCEPT !.done = TRUE, !.ret = sieve_check(call.candidate)]
  /\ UNCHANGED << mpc, path, digits, candidate, candidates, sieved_candidates,
                  found, tpc, out, judged, file, result, result_judged, first_certified, fault >>

NextSieve == sieve_call

SpecSieve == InitSieve /\ [][NextSieve]_vars

(* ---------------------------------------------------------------------- *)
(* The sequential search with a fair sampler and an oracle that answers   *)
(* ---------------------------------------------------------------------- *)

\* the digit counts of the calls that take the sequential branch
SeqDigits == (1..MaxFullDigits) \cup { 7 }

\* main calls gen_rand_large_prime(d) below the threshold
seq_call == \E d \in SeqDigits : gen_rand_large_prime(d)

\* the candidates generate_prime_candidate can hand to the sequential loop,
\* and the primes among them
SeqValues ==
  UNION { { generate_prime_candidate(d, num).value : num \in Draws(d) } :
          d \in SeqDigits }

SeqPrimes == { v \in SeqValues : IsPrime(v) }

\* the iterations of the loop whose candidate is a prime, and the others
seq_sample_prime == seq_sample /\ candidate' \in SeqPrimes

seq_sample_composite == seq_sample /\ candidate' \notin SeqPrimes

\* gp is launched, runs to the end and prints the verdict of isprime
seq_run_correct ==
  /\ seq_run
  /\ mpc' = "dpc_remove"
  /\ out'[0] = gp_stdout(file)

NextSeqFair ==
  \/ seq_call
  \/ seq_sample
  \/ seq_sieve
  \/ seq_probable
  \/ seq_write
  \/ seq_run_correct
  \/ seq_remove

\* The thread of the call keeps running, and the random source keeps
\* producing every value of the range as long as the loop samples.  One
\* strong-fairness condition per value is beyond TLC (the conditions are
\* expanded into a disjunctive normal form); the two conditions on the draws
\* of primes and of the other values follow from the conditions per value,
\* the values being finitely many, and say nothing on a range without prime.
SpecSeqFair ==
  /\ Init
  /\ [][NextSeqFair]_vars
  /\ WF_vars(seq_sieve)
  /\ WF_vars(seq_probable)
  /\ WF_vars(seq_write)
  /\ WF_vars(seq_run_correct)
  /\ WF_vars(seq_remove)
  /\ SF_vars(seq_sample_prime)
  /\ SF_vars(seq_sample_composite)

(* ---------------------------------------------------------------------- *)
(* Properties                                                             *)
(* ---------------------------------------------------------------------- *)

\* b has exactly d decimal digits, the first of them nonzero
HasDigits(b, d) == Len(b) = d /\ b[d] # 0

IsOdd(b) == b # << >> /\ b[1] % 2 = 1

Returned == mpc = "returned"

\* C1: every value gen_rand_large_prime returns, on either path, passed
\* sieve_check and probable_prime_check, and the oracle's verdict "prime"
\* that accepted it was given on exactly that value.
C1_CertifiedOnOwnValue ==
  Returned =>
    /\ sieve_check(result)
    /\ probable_prime_check(result)
    /\ result_judged = ToDecimal(result)

\* C2: every value r returned by gen_rand_large_prime(d), d >= 1, on either
\* path, has exactly d decimal digits and is odd.
C2_ExactDigitsAndOdd ==
  Returned => HasDigits(result, digits) /\ IsOdd(result)

\* C2 witness: the parallel path has returned 10^49 + 9, the even draw
\* 10^49 + 8 incremented
C2_Witness ==
  Returned /\ path = "parallel" /\ result = LowOffset(parallel_threshhold, 9)

\* C3: in a parallel round, the output a worker obtained from its gp run is
\* the oracle's answer on that worker's own candidate, whatever the other
\* workers did to the script file meanwhile.
C3_VerdictOnOwnCandidate ==
  \A i \in Items :
    out[i] # "none" => judged[i] = ToDecimal(sieved_candidates[i])

\* C4: within one parallel round at most one worker stores true to the found
\* flag and yields its candidate.
C4_AtMostOneFound == Cardinality(Certified) <= 1

\* C5: a failure of the oracle never leaves the search loop: no call and no
\* worker is ended by it.
C5_OracleFailureStaysLocal ==
  /\ fault # "Failed to run PARI/GP"
  /\ \A i \in Items : tpc[i] # "panicked"

\* C6: the script a call of deterministic_prime_check wrote exists only while
\* that call is between its write and its removal.
C6_ScriptRemoved ==
  file.exists =>
    IF file.writer = 0
    THEN mpc \in { "dpc_run", "dpc_remove" }
    ELSE tpc[file.writer] \in { "run", "remove" }

\* C7: generate_prime_candidate(d), d >= 1, returns on every draw an odd
\* integer of exactly d digits: the draw itself when it is odd, the draw plus
\* one when it is even.
C7_SamplerOddInRange ==
  (call.fn = "generate_prime_candidate" /\ call.done) =>
    /\ IsOdd(call.ret)
    /\ HasDigits(call.ret, call.digits)
    /\ IF IsOdd(call.num)
       THEN call.ret = call.num
       ELSE call.ret = BigAddOne(call.num)

\* C7 witness: the largest even 50-digit value, 10^50 - 2, was drawn and
\* 10^50 - 1 returned
C7_Witness ==
  /\ call.fn = "generate_prime_candidate"
  /\ call.done
  /\ call.num = HighOffset(parallel_threshhold, 2)
  /\ call.ret = HighOffset(parallel_threshhold, 1)

\* n = k * q for some k >= 2
NontrivialMultiple(n, q) == n % q = 0 /\ n >= 2 * q

InTable(n) == \E i \in 1..Len(SMALL_PRIMES) : SMALL_PRIMES[i] = n

\* C8 as stated: sieve_check rejects every nontrivial multiple of every prime
\* of the table, and accepts every member of the table.
C8_RejectsMultiplesOfAll ==
  (call.fn = "sieve_check" /\ call.done) =>
    /\ (\E i \in 1..Len(SMALL_PRIMES) : NontrivialMultiple(call.n, SMALL_PRIMES[i]))
         => call.ret = FALSE
    /\ InTable(call.n) => call.ret = TRUE

\* C8 amended: sieve_check rejects every nontrivial multiple of every prime
\* of the table other than 2, and accepts every member of the table.
C8_RejectsMultiplesOfOdd ==
  (call.fn = "sieve_check" /\ call.done) =>
    /\ (\E i \in 2..Len(SMALL_PRIMES) : NontrivialMultiple(call.n, SMALL_PRIMES[i]))
         => call.ret = FALSE
    /\ InTable(call.n) => call.ret = TRUE

\* C8 witness: 2 * 1229, a multiple of the last prime of the table, was rejected
C8_Witness ==
  /\ call.fn = "sieve_check"
  /\ call.done
  /\ call.n = 2 * SMALL_PRIMES[Len(SMALL_PRIMES)]
  /\ call.ret = FALSE

\* C9: a request for 0 digits is refused with InvalidSize before anything is
\* sampled: no underflow of digits - 1, no panic, no number returned.
C9_ZeroDigitsRejected ==
  (path # "none" /\ digits = 0) =>
    /\ fault \in { "none", "InvalidSize" }
    /\ mpc # "panicked"
    /\ ~Returned

\* C10: the found flag is false when the certification phase of a round
\* begins; it is reset only when no worker is running; and outside the
\* certification phase no worker of a round is running to read or write it.
C10_FlagResetAfterWorkers ==
  /\ [](mpc = "par_find" /\ (\A i \in Items : tpc[i] \in { "todo", "unused" })
          => ~found)
  /\ [](mpc # "par_find" => Running = {})
  /\ [][(found /\ ~found') => Running = {}]_vars

\* C10 witness: a round in which a worker set the flag has ended and the flag
\* is false again
C10_Witness ==
  Returned /\ path = "parallel" /\ ~found /\ result # None

\* C11: once the found flag is true in a parallel round, no worker begins a
\* certification step for its own candidate: no probable_prime_check and no
\* deterministic_prime_check (its script write) starts while the flag is set.
C11_NoNewStepAfterFound ==
  [][found =>
       \A i \in Items :
         /\ ~(tpc[i] = "ppc" /\ tpc'[i] # "ppc")
         /\ ~(tpc[i] = "write" /\ tpc'[i] # "write")]_vars

\* C12: the value the parallel coordinator returns is the candidate of the
\* worker whose certification completed first in time in the round, whatever
\* its position in the round's list.
C12_ReturnsFirstArrival ==
  (Returned /\ path = "parallel") => result = first_certified

\* the state of the sequential search in the words of its state machine:
\* Certifying covers probable_prime_check and the steps of the oracle call
SeqState ==
  IF mpc \in { "Certifying", "dpc_write", "dpc_run", "dpc_remove" }
  THEN "Certifying"
  ELSE IF mpc = "returned" THEN "Accepted" ELSE mpc

\* C13: a call of gen_rand_large_prime_sequential moves only along
\* Sampling -> Sieving -> (Sampling | Certifying) -> (Sampling | Accepted):
\* every change of state of a call in progress is one of these transitions,
\* a rejected candidate is dropped, and Accepted is entered only from
\* Certifying with both certifiers having accepted.
C13_SequentialStateMachine ==
  [][(path = "sequential" /\ mpc \notin { "idle", "returned", "panicked" }
        /\ SeqState' # SeqState)
     => /\ << SeqState, SeqState' >> \in
             { << "Sampling", "Sieving" >>,
               << "Sieving", "Sampling" >>, << "Sieving", "Certifying" >>,
               << "Certifying", "Sampling" >>, << "Certifying", "Accepted" >> }
        /\ (SeqState = "Sieving" /\ SeqState' = "Certifying")
             => sieve_check(candidate)
        /\ (SeqState = "Certifying" /\ SeqState' = "Sampling")
             => candidate' = None
        /\ (SeqState = "Sieving" /\ SeqState' = "Sampling")
             => candidate' = None
        /\ SeqState' = "Accepted"
             => probable_prime_check(candidate) /\ verdict_of(out[0])]_vars

\* C14: a parallel round in which some worker returned Some ends with the
\* coordinator returning a candidate certified in that round; a round in
\* which no worker returned Some returns nothing and a new round is sampled.
C14_RoundOutcome ==
  [][(mpc = "par_find" /\ mpc' # "par_find")
     => IF Certified # {}
        THEN /\ mpc' = "returned"
             /\ result' \in { sieved_candidates[i] : i \in Certified }
        ELSE /\ mpc' = "par_sample"
             /\ result' = None]_vars

\* C15: in every parallel round exactly 4 * cpus candidates are sampled, the
\* sieve is applied to all of them (what goes on is exactly what passed), no
\* closure of the certification runs before sampling and sieving are over,
\* and the candidates certified are those of the sieved list, which does not
\* change during the round.
C15_SampleSieveThenCertify ==
  /\ [](mpc = "par_sieve" => Len(candidates) = 4 * cpus)
  /\ [][(mpc = "par_sieve" /\ mpc' # "par_sieve")
        => /\ mpc' = "par_find"
           /\ \A k \in 1..Len(sieved_candidates') :
                sieve_check(sieved_candidates'[k])
           /\ \A k \in 1..Len(candidates) :
                sieve_check(candidates[k])
                  => \E j \in 1..Len(sieved_candidates') :
                       sieved_candidates'[j] = candidates[k]
           /\ Len(sieved_candidates') =
                Cardinality({ k \in 1..Len(candidates) : sieve_check(candidates[k]) })
           /\ \A i \in Items : tpc'[i] \in { "todo", "unused" }]_vars
  /\ [](\A i \in Items :
          tpc[i] # "unused"
            => /\ mpc \in { "par_find", "panicked" }
               /\ candidates = << >>
               /\ i <= Len(sieved_candidates))
  /\ [][(mpc = "par_find" /\ mpc' = "par_find")
        => sieved_candidates' = sieved_candidates]_vars

\* a round in which the sieve dropped a sampled candidate and the oracle runs
\* on one that passed
C15_Witness ==
  /\ mpc = "par_find"
  /\ Len(sieved_candidates) \in 1..(4 * cpus - 1)
  /\ \E i \in Items : tpc[i] = "run"

\* C16: with a fair sampler and an oracle that answers correctly, a call of
\* gen_rand_large_prime_sequential(d), d >= 1, eventually returns an accepted
\* candidate; it never ends in another way.
C16_SequentialEventuallyAccepts ==
  /\ (path = "sequential" /\ mpc = "Sampling") ~> (Returned /\ result # None)
  /\ [](mpc # "panicked")

\* the 7-digit search has returned the prime 1000003
C16_Witness ==
  /\ Returned
  /\ path = "sequential"
  /\ digits = 7
  /\ result = LowOffset(7, 3)

\* C17: SMALL_PRIMES is strictly increasing (so duplicate-free), all its
\* members are prime, it holds every prime up to its last element 1229, and
\* it has 201 entries: it is the sequence of the first 201 primes.  It is a
\* constant of the program: no step changes it.
TableIsFirstPrimes ==
  /\ Len(SMALL_PRIMES) = 201
  /\ SMALL_PRIMES[Len(SMALL_PRIMES)] = 1229
  /\ \A i \in 1..(Len(SMALL_PRIMES) - 1) : SMALL_PRIMES[i] < SMALL_PRIMES[i + 1]
  /\ \A i \in 1..Len(SMALL_PRIMES) : IsPrimeNat(SMALL_PRIMES[i])
  /\ \A n \in 2..SMALL_PRIMES[Len(SMALL_PRIMES)] :
       IsPrimeNat(n) => \E i \in 1..Len(SMALL_PRIMES) : SMALL_PRIMES[i] = n

C17_TableIsFirstPrimes ==
  call.fn = "sieve_check" => TableIsFirstPrimes

\* sieve_check has run on the last entry of the table
C17_Witness ==
  /\ call.fn = "sieve_check"
  /\ call.done
  /\ call.n = SMALL_PRIMES[Len(SMALL_PRIMES)]

\* C18: generate_prime_candidate(d), d >= 1, returns after exactly one draw:
\* whatever the draw, the iteration that uses it returns, so the loop never
\* draws a second time.
C18_ReturnsAfterOneDraw ==
  call.fn = "generate_prime_candidate" =>
    /\ call.draws = 1
    /\ ~call.done => generate_prime_candidate(call.digits, call.num).returned

\* C18 witness: the largest even 2-digit value, 98, was drawn and 99 returned
\* after that one draw
C18_Witness ==
  /\ call.fn = "generate_prime_candidate"
  /\ call.done
  /\ call.digits = 2
  /\ call.num = HighOffset(2, 2)
  /\ call.ret = HighOffset(2, 1)
  /\ call.draws = 1

\* C19: sieve_check never rejects a prime: it returns true for every prime n
\* (2, the members of the table, the primes above 1229), so a value of 2 or
\* more that it rejects is composite.
C19_PrimesPassSieve ==
  (call.fn = "sieve_check" /\ call.done) =>
    /\ IsPrimeNat(call.n) => call.ret
    /\ (~call.ret /\ call.n >= 2) =>
         \E k \in 2..(call.n - 1) : call.n % k = 0

\* C19 witness: the prime 1231, above the table, was accepted
C19_Witness ==
  /\ call.fn = "sieve_check"
  /\ call.done
  /\ call.n = 1231
  /\ call.ret

====
